---- MODULE Spec2Model ----
(***************************************************************************)
(* Discrete-event packet simulation: queue disciplines (customqueue.py),   *)
(* observer hook (queue_observer.py), event set, processors and the        *)
(* scheduler loop (scheduler.py).                                          *)
(***************************************************************************)
EXTENDS Integers, Sequences, FiniteSets, TLC

\* ------------------------------------------------------------- bounds
\* calls made on a queue by the queue-level driver
MaxOps == 7
\* largest length_limit given to a leaf queue
MaxLimit == 2
\* largest weight given to a WRR child
MaxWeight == 2
\* largest number of arrivals _create_packets generates before the horizon
MaxPackets == 3
\* simulation_time (t) of the scheduler runs
Horizon == 2

\* Packet.Priority: LOW = 0, MEDIUM = 1, HIGH = 2
LOW == 0
MEDIUM == 1
HIGH == 2
Priority == {LOW, MEDIUM, HIGH}

\* Python's None for the int-valued fields
None == -1

VARIABLES
    queue,        \* the queue-discipline object (with its observers' record)
    all_packets,  \* packet objects, by identity (index)
    ops,          \* number of calls made so far by the queue-level driver
    last,         \* the last call and what it returned
    admitted,     \* history: packets for which add_packet returned True
    served,       \* history: packets returned by pop
    streak,       \* history: classes served by the latest pops of a WRR queue that
                  \* were all made while every child was non-empty
    event_set,    \* EventSet.events: the heap list
    processors,   \* Scheduler.processors
    priority_probs, \* the classes to which priority_probs gives a non-zero weight
    current_time, \* the local current_time of Scheduler.run
    pc,           \* where Scheduler.run stands
    event,        \* the local event of _draw_events: the event last popped
    batch,        \* history: the events _draw_events yielded in this iteration
    horizon_hit,  \* history: an event at or beyond the horizon has been popped
    log           \* history: the events applied and the packets dispatched by run

qvars == <<ops, last, admitted, served, streak>>
svars == <<event_set, processors, priority_probs, current_time, pc, event, batch,
           horizon_hit, log>>
vars == <<queue, all_packets, qvars, svars>>

\* ------------------------------------------------------------- packets
NewPacket(enter, ptime, prio) ==
    [enter_time |-> enter, process_time |-> ptime, priority |-> prio,
     processor_index |-> None, start_time |-> None, dropped |-> FALSE]

\* ------------------------------------------------------------- queues
IsLeaf(Q) == Q.kind \in {"FIFO", "NPPS"}

RECURSIVE Flatten(_)
Flatten(qs) == IF qs = <<>> THEN <<>> ELSE Head(qs).q \o Flatten(Tail(qs))

RECURSIVE SumLen(_)
SumLen(qs) == IF qs = <<>> THEN 0 ELSE Len(Head(qs).q) + SumLen(Tail(qs))

\* length(): len(self.q) for a leaf, the sum over the children for WRR
Length(Q) == IF IsLeaf(Q) THEN Len(Q.q) ELSE SumLen(Q.queues)

\* what an observer reading the queue sees: the packets it holds
Contents(Q) == IF IsLeaf(Q) THEN Q.q ELSE Flatten(Q.queues)

\* empty()
Empty(Q) ==
    IF IsLeaf(Q) THEN Len(Q.q) = 0
    ELSE \A i \in 1..Len(Q.queues) : Len(Q.queues[i].q) = 0

\* BaseQueue.update_observers: every registered observer is called with the
\* fields; observed is the record of the calls one registered observer received,
\* with the queue as it stands during the call
UpdateObservers(Q, type, packet, now, new_length) ==
    [Q EXCEPT !.observed = Append(@,
        [type |-> type, packet |-> packet, current_time |-> now,
         new_length |-> new_length, seen |-> Contents(Q)])]

\* BaseQueue.add_packet
BaseAddPacket(Q, packet, now) ==
    [queue |-> UpdateObservers(Q, "add", packet, now, Length(Q)),
     ret |-> TRUE]

\* BaseQueue.pop
BasePop(Q, now) ==
    [queue |-> UpdateObservers(Q, "pop", None, now, Length(Q)),
     ret |-> None]

\* FIFOQueue.__init__
FIFOQueue(length_limit) ==
    [kind |-> "FIFO", length_limit |-> length_limit, q |-> <<>>, observed |-> <<>>]

\* mutant: the observers are notified before the packet is appended
FIFOAddPacket_NotifyFirst(Q, packet, now) ==
    IF Len(Q.q) >= Q.length_limit
    THEN [queue |-> Q, ret |-> FALSE]
    ELSE LET Q1 == BaseAddPacket(Q, packet, now).queue
         IN  [queue |-> [Q1 EXCEPT !.q = Append(@, packet)], ret |-> TRUE]

\* FIFOQueue.add_packet
FIFOAddPacket(Q, packet, now) ==
    IF Len(Q.q) >= Q.length_limit
    THEN [queue |-> Q, ret |-> FALSE]
    ELSE BaseAddPacket([Q EXCEPT !.q = Append(@, packet)], packet, now)

\* mutant: pop() of the deque's right end instead of popleft()
FIFOPop_Last(Q, now) ==
    IF Empty(Q)
    THEN [queue |-> Q, ret |-> None]
    ELSE LET Q1 == BasePop(Q, now).queue
         IN  [queue |-> [Q1 EXCEPT !.q = SubSeq(@, 1, Len(@) - 1)],
              ret |-> Q1.q[Len(Q1.q)]]

\* mutant: the head is returned but left in the deque (q[0] instead of popleft())
FIFOPop_Peek(Q, now) ==
    IF Empty(Q)
    THEN [queue |-> Q, ret |-> None]
    ELSE [queue |-> BasePop(Q, now).queue, ret |-> Head(Q.q)]

\* FIFOQueue.pop
FIFOPop(Q, now) ==
    IF Empty(Q)
    THEN [queue |-> Q, ret |-> None]
    ELSE LET Q1 == BasePop(Q, now).queue
         IN  [queue |-> [Q1 EXCEPT !.q = Tail(@)], ret |-> Head(Q1.q)]

\* NPPSQueue.__init__
NPPSQueue(length_limit) ==
    [kind |-> "NPPS", length_limit |-> length_limit, q |-> <<>>, observed |-> <<>>]

\* mutant: the new packet is bubbled past equal priorities too
RECURSIVE Bubble_NonStrict(_, _, _)
Bubble_NonStrict(pk, q, index) ==
    IF index /= 0 /\ pk[q[index]].priority <= pk[q[index + 1]].priority
    THEN Bubble_NonStrict(pk, [q EXCEPT ![index] = q[index + 1], ![index + 1] = q[index]],
                          index - 1)
    ELSE q

\* the while loop of NPPSQueue.add_packet; index is the 0-based Python index
RECURSIVE Bubble(_, _, _)
Bubble(pk, q, index) ==
    IF index /= 0 /\ pk[q[index]].priority < pk[q[index + 1]].priority
    THEN Bubble(pk, [q EXCEPT ![index] = q[index + 1], ![index + 1] = q[index]],
                index - 1)
    ELSE q

\* mutant: the capacity test is off by one
NPPSAddPacket_OffByOne(pk, Q, packet, now) ==
    IF Len(Q.q) > Q.length_limit
    THEN [queue |-> Q, ret |-> FALSE]
    ELSE LET q1 == Append(Q.q, packet)
         IN  BaseAddPacket([Q EXCEPT !.q = Bubble(pk, q1, Len(q1) - 1)], packet, now)

\* NPPSQueue.add_packet
NPPSAddPacket(pk, Q, packet, now) ==
    IF Len(Q.q) = Q.length_limit
    THEN [queue |-> Q, ret |-> FALSE]
    ELSE LET q1 == Append(Q.q, packet)
         IN  BaseAddPacket([Q EXCEPT !.q = Bubble(pk, q1, Len(q1) - 1)],
                           packet, now)

\* NPPSQueue.pop
NPPSPop(Q, now) ==
    IF Empty(Q)
    THEN [queue |-> Q, ret |-> None]
    ELSE LET Q1 == BasePop(Q, now).queue
         IN  [queue |-> [Q1 EXCEPT !.q = Tail(@)], ret |-> Head(Q1.q)]

\* WRRQueue.__init__
WRRQueue(queues, weights) ==
    [kind |-> "WRR", queues |-> queues, weights |-> weights,
     current_queue_index |-> Len(queues) - 1, current_queue_popped |-> 0,
     observed |-> <<>>]

\* mutant: the cursor advances without resetting the quota counter
NextQueue_NoReset(Q) ==
    [Q EXCEPT !.current_queue_index = (@ - 1) % Len(Q.queues)]

\* WRRQueue._next_queue
NextQueue(Q) ==
    [Q EXCEPT !.current_queue_index = (@ - 1) % Len(Q.queues),
              !.current_queue_popped = 0]

\* mutant: the composite notifies its observers whatever the child answered
WRRAddPacket_AlwaysNotify(pk, Q, packet, now) ==
    LET i == pk[packet].priority + 1
        r == FIFOAddPacket(Q.queues[i], packet, now)
    IN  [queue |-> BaseAddPacket([Q EXCEPT !.queues[i] = r.queue], packet, now).queue,
         ret |-> r.ret]

\* WRRQueue.add_packet
WRRAddPacket(pk, Q, packet, now) ==
    LET i == pk[packet].priority + 1
        r == FIFOAddPacket(Q.queues[i], packet, now)
    IN  IF r.ret
        THEN BaseAddPacket([Q EXCEPT !.queues[i] = r.queue], packet, now)
        ELSE [queue |-> Q, ret |-> FALSE]

\* the while True loop of WRRQueue.pop
RECURSIVE WRRScan(_, _)
WRRScan(Q, now) ==
    LET i == Q.current_queue_index + 1
    IN  IF ~Empty(Q.queues[i])
        THEN LET r  == FIFOPop(Q.queues[i], now)
                 Q1 == [Q EXCEPT !.queues[i] = r.queue,
                                 !.current_queue_popped = @ + 1]
                 Q2 == IF Q1.current_queue_popped = Q1.weights[i]
                       THEN NextQueue(Q1) ELSE Q1
             IN  [queue |-> BasePop(Q2, now).queue, ret |-> r.ret]
        ELSE WRRScan(NextQueue(Q), now)

\* WRRQueue.pop
WRRPop(Q, now) ==
    IF Empty(Q)
    THEN [queue |-> Q, ret |-> None]
    ELSE WRRScan(Q, now)

\* AbstractQueue.add_packet, dispatched on the discipline
AddPacket(pk, Q, packet, now) ==
    CASE Q.kind = "FIFO" -> FIFOAddPacket(Q, packet, now)
      [] Q.kind = "NPPS" -> NPPSAddPacket(pk, Q, packet, now)
      [] Q.kind = "WRR"  -> WRRAddPacket(pk, Q, packet, now)

\* AbstractQueue.pop, dispatched on the discipline
Pop(Q, now) ==
    CASE Q.kind = "FIFO" -> FIFOPop(Q, now)
      [] Q.kind = "NPPS" -> NPPSPop(Q, now)
      [] Q.kind = "WRR"  -> WRRPop(Q, now)

\* ------------------------------------------------------------- events
\* Event(time, event_type, packet); only time takes part in the ordering
Event(time, event_type, packet) ==
    [time |-> time, event_type |-> event_type, packet |-> packet]

NoEvent == Event(None, "none", None)

\* Event.__lt__ (dataclass order=True over the compared field time)
EventLt(a, b) == a.time < b.time

\* heapq._siftdown(heap, startpos, pos) with newitem carried along; positions
\* are the 0-based Python positions
RECURSIVE SiftDown(_, _, _, _)
SiftDown(heap, startpos, pos, newitem) ==
    IF pos > startpos /\ EventLt(newitem, heap[((pos - 1) \div 2) + 1])
    THEN SiftDown([heap EXCEPT ![pos + 1] = heap[((pos - 1) \div 2) + 1]],
                  startpos, (pos - 1) \div 2, newitem)
    ELSE [heap EXCEPT ![pos + 1] = newitem]

\* the while loop of heapq._siftup: the smaller child is moved up until a leaf
\* is reached; gives the heap and the leaf position
RECURSIVE SiftUpLoop(_, _)
SiftUpLoop(heap, pos) ==
    LET endpos   == Len(heap)
        childpos == 2 * pos + 1
        rightpos == childpos + 1
        c == IF rightpos < endpos /\ ~EventLt(heap[childpos + 1], heap[rightpos + 1])
             THEN rightpos ELSE childpos
    IN  IF childpos < endpos
        THEN SiftUpLoop([heap EXCEPT ![pos + 1] = heap[c + 1]], c)
        ELSE [heap |-> heap, pos |-> pos]

\* heapq._siftup(heap, pos)
SiftUp(heap, pos) ==
    LET newitem == heap[pos + 1]
        r == SiftUpLoop(heap, pos)
    IN  SiftDown(r.heap, pos, r.pos, newitem)

\* mutant: list.append instead of heapq.heappush
AddEvent_Append(heap, e) == Append(heap, e)

\* EventSet.add_event: heapq.heappush
AddEvent(heap, e) ==
    LET h == Append(heap, e)
    IN  SiftDown(h, 0, Len(h) - 1, e)

\* mutant: the smallest event is returned but left in the heap
PopEvent_Peek(heap) == [event |-> heap[1], heap |-> heap]

\* EventSet.pop: heapq.heappop; the heap is not empty
PopEvent(heap) ==
    LET lastelt == heap[Len(heap)]
        h == SubSeq(heap, 1, Len(heap) - 1)
    IN  IF h /= <<>>
        THEN [event |-> h[1], heap |-> SiftUp([h EXCEPT ![1] = lastelt], 0)]
        ELSE [event |-> lastelt, heap |-> h]

\* EventSet.top
TopEvent(heap) == heap[1]

\* ------------------------------------------------------------- queue-level driver
\* the disciplines a caller can construct: a leaf of any capacity, or a WRR
\* over one FIFO child per class in use
WeightVectors == [1..2 -> 0..MaxWeight]

QueueConfigs ==
    {FIFOQueue(L) : L \in 0..MaxLimit}
    \cup {NPPSQueue(L) : L \in 0..MaxLimit}
    \cup {WRRQueue(<<FIFOQueue(L), FIFOQueue(L)>>, w) :
            L \in 0..MaxLimit, w \in WeightVectors}

\* the priorities a caller may give a packet bound for Q
PrioritiesFor(Q) == IF IsLeaf(Q) THEN Priority ELSE 0..(Len(Q.queues) - 1)

QInit ==
    /\ queue \in QueueConfigs
    /\ all_packets = <<>>
    /\ ops = 0
    /\ last = [op |-> "none"]
    /\ admitted = <<>>
    /\ served = <<>>
    /\ streak = <<>>
    /\ event_set = <<>>
    /\ processors = <<>>
    /\ priority_probs = {}
    /\ current_time = 0
    /\ pc = "none"
    /\ event = NoEvent
    /\ batch = <<>>
    /\ horizon_hit = FALSE
    /\ log = <<>>

\* a caller creates a packet and calls queue.add_packet(packet, now)
QAdd ==
    /\ ops < MaxOps
    /\ \E prio \in PrioritiesFor(queue) :
         LET pk == Append(all_packets, NewPacket(ops, 0, prio))
             p  == Len(pk)
             r  == AddPacket(pk, queue, p, ops)
         IN  /\ all_packets' = pk
             /\ queue' = r.queue
             /\ last' = [op |-> "add", packet |-> p, ret |-> r.ret]
             /\ admitted' = IF r.ret THEN Append(admitted, p) ELSE admitted
    /\ ops' = ops + 1
    /\ UNCHANGED <<served, streak, svars>>

\* every child of a WRR queue holds a packet
AllNonEmpty(Q) == \A i \in 1..Len(Q.queues) : Len(Q.queues[i].q) > 0

\* a caller calls queue.pop(now)
QPop ==
    /\ ops < MaxOps
    /\ LET r == Pop(queue, ops)
       IN  /\ queue' = r.queue
           /\ last' = [op |-> "pop", ret |-> r.ret]
           /\ served' = IF r.ret /= None THEN Append(served, r.ret) ELSE served
           /\ streak' = IF ~IsLeaf(queue) /\ AllNonEmpty(queue)
                         THEN Append(streak, all_packets[r.ret].priority)
                         ELSE <<>>
    /\ ops' = ops + 1
    /\ UNCHANGED <<all_packets, admitted, svars>>

QNext == QAdd \/ QPop

SpecQ == QInit /\ [][QNext]_vars

\* ------------------------------------------------------------- processors
\* Processor.__init__
Processor == [is_busy |-> FALSE, start_time |-> None, account |-> 0]

\* Processor.set_is_busy
SetIsBusy(proc, now) == [proc EXCEPT !.is_busy = TRUE, !.start_time = now]

\* mutant: the release adds the busy time but leaves the processor busy
ResetIsBusy_KeepBusy(proc, now) ==
    [proc EXCEPT !.account = @ + (now - proc.start_time)]

\* Processor.reset_is_busy
ResetIsBusy(proc, now) ==
    [proc EXCEPT !.account = @ + (now - proc.start_time),
                 !.is_busy = FALSE, !.start_time = None]

\* ------------------------------------------------------------- scheduler
\* Packet.has_started
HasStarted(packet) == packet.start_time /= None

\* Packet.end_time: the assert raises AssertionError when the packet has not
\* started, otherwise the value is start_time + process_time
EndTime(packet) ==
    IF HasStarted(packet)
    THEN [raised |-> FALSE, value |-> packet.start_time + packet.process_time]
    ELSE [raised |-> TRUE, value |-> None]

\* top().time == event in _draw_events compares a float with an Event: neither
\* float.__eq__ nor the dataclass __eq__ (other.__class__ is not Event) handles
\* the pair, so Python falls back to identity and the result is False
TimeEqualsEvent(time, e) == FALSE

\* the arrival streams _create_packets can draw: enter times are the running
\* sums of non-negative gaps, all below the horizon; service durations and
\* priorities are drawn independently
ProcessTimes == {0, 1}

Streams(classes) ==
    UNION {
        {s \in [1..n -> [enter_time : 0..(Horizon - 1), process_time : ProcessTimes,
                         priority : classes]] :
            \A i \in 1..(n - 1) : s[i].enter_time <= s[i + 1].enter_time}
        : n \in 0..MaxPackets}

\* the SPAWN events of the packets from index i on, pushed in generation order
RECURSIVE PushSpawns(_, _, _)
PushSpawns(heap, pk, i) ==
    IF i > Len(pk) THEN heap
    ELSE PushSpawns(AddEvent(heap, Event(pk[i].enter_time, "spawn", i)), pk, i + 1)

\* Scheduler._create_packets, the first statement of run
CreatePackets ==
    /\ pc = "create"
    /\ \E s \in Streams(priority_probs) :
         LET pk == [i \in 1..Len(s) |->
                      NewPacket(s[i].enter_time, s[i].process_time, s[i].priority)]
         IN  /\ all_packets' = pk
             /\ event_set' = PushSpawns(event_set, pk, 1)
    /\ current_time' = 0
    /\ pc' = "loop"
    /\ UNCHANGED <<queue, qvars, processors, priority_probs, event, batch, horizon_hit,
                   log>>

\* mutant: _draw_events yields the popped event without the horizon test
DrawEvents_NoHorizonCheck ==
    /\ pc = "loop"
    /\ current_time < Horizon /\ event_set /= <<>>
    /\ LET r == PopEvent(event_set)
       IN  /\ event_set' = r.heap
           /\ event' = r.event
           /\ batch' = <<r.event>>
           /\ horizon_hit' = (horizon_hit \/ r.event.time >= Horizon)
           /\ pc' = "apply"
    /\ UNCHANGED <<queue, all_packets, qvars, processors, priority_probs, current_time,
                   log>>

\* the while test of run holds and _draw_events runs to its first yield, or to
\* its return when the popped event is at or beyond the horizon
DrawEvents ==
    /\ pc = "loop"
    /\ current_time < Horizon /\ event_set /= <<>>
    /\ LET r == PopEvent(event_set)
       IN  /\ event_set' = r.heap
           /\ event' = r.event
           /\ IF r.event.time >= Horizon
              THEN /\ batch' = <<>>
                   /\ horizon_hit' = TRUE
                   /\ pc' = "fill"
              ELSE /\ batch' = <<r.event>>
                   /\ horizon_hit' = horizon_hit
                   /\ pc' = "apply"
    /\ UNCHANGED <<queue, all_packets, qvars, processors, priority_probs, current_time,
                   log>>

\* mutant: the test of the admission result is inverted
ApplyEventTo_DropInverted(st, e) ==
    IF e.event_type = "spawn"
    THEN LET r == AddPacket(st.all_packets, st.queue, e.packet, e.time)
         IN  [st EXCEPT !.queue = r.queue,
                        !.all_packets[e.packet].dropped = IF r.ret THEN TRUE ELSE @]
    ELSE LET i == st.all_packets[e.packet].processor_index + 1
         IN  [st EXCEPT !.processors[i] = ResetIsBusy(@, e.time)]

\* Scheduler._apply_event
ApplyEventTo(st, e) ==
    IF e.event_type = "spawn"
    THEN LET r == AddPacket(st.all_packets, st.queue, e.packet, e.time)
         IN  [st EXCEPT !.queue = r.queue,
                        !.all_packets[e.packet].dropped = IF r.ret THEN @ ELSE TRUE]
    ELSE LET i == st.all_packets[e.packet].processor_index + 1
         IN  [st EXCEPT !.processors[i] = ResetIsBusy(@, e.time)]

\* the body of the for loop of run for the event last yielded, and the
\* resumption of _draw_events up to its next yield or its end
ApplyEvent ==
    /\ pc = "apply"
    /\ LET e  == batch[Len(batch)]
           st == ApplyEventTo([queue |-> queue, all_packets |-> all_packets,
                               processors |-> processors], e)
       IN  /\ current_time' = e.time
           /\ queue' = st.queue
           /\ all_packets' = st.all_packets
           /\ processors' = st.processors
           /\ log' = Append(log, [what |-> e.event_type, packet |-> e.packet,
                                  time |-> e.time,
                                  processor |-> IF e.event_type = "done"
                                                THEN all_packets[e.packet].processor_index
                                                ELSE None])
           /\ IF event_set /= <<>> /\ TimeEqualsEvent(TopEvent(event_set).time, event)
              THEN LET r == PopEvent(event_set)
                   IN  /\ event_set' = r.heap
                       /\ batch' = Append(batch, r.event)
                       /\ pc' = "apply"
              ELSE /\ event_set' = event_set
                   /\ batch' = batch
                   /\ pc' = "fill"
    /\ UNCHANGED <<qvars, priority_probs, event, horizon_hit>>

\* mutant: end_time is read before start_time is assigned
RECURSIVE FillFrom_EndTimeFirst(_, _, _)
FillFrom_EndTimeFirst(st, i, now) ==
    IF i >= Len(st.processors) THEN st
    ELSE IF ~st.processors[i + 1].is_busy
         THEN LET r  == Pop(st.queue, now)
                  et == EndTime(st.all_packets[r.ret])
                  pk == [st.all_packets EXCEPT ![r.ret].processor_index = i,
                                               ![r.ret].start_time = now]
                  s0 == [st EXCEPT !.queue = r.queue, !.raised = TRUE]
                  s1 == [queue |-> r.queue,
                         all_packets |-> pk,
                         processors |-> [st.processors EXCEPT ![i + 1] = SetIsBusy(@, now)],
                         event_set |-> AddEvent(st.event_set,
                                                Event(et.value, "done", r.ret)),
                         log |-> Append(st.log, [what |-> "dispatch", packet |-> r.ret,
                                                 time |-> now, processor |-> i]),
                         raised |-> FALSE]
              IN  IF et.raised THEN s0
                  ELSE IF Empty(s1.queue) THEN s1
                  ELSE FillFrom_EndTimeFirst(s1, i + 1, now)
         ELSE FillFrom_EndTimeFirst(st, i + 1, now)

\* mutant: the scan does not test is_busy
RECURSIVE FillFrom_IgnoreBusy(_, _, _)
FillFrom_IgnoreBusy(st, i, now) ==
    IF i >= Len(st.processors) THEN st
    ELSE LET r  == Pop(st.queue, now)
             pk == [st.all_packets EXCEPT ![r.ret].processor_index = i,
                                          ![r.ret].start_time = now]
             s1 == [queue |-> r.queue,
                    all_packets |-> pk,
                    processors |-> [st.processors EXCEPT ![i + 1] = SetIsBusy(@, now)],
                    event_set |-> AddEvent(st.event_set,
                                           Event(EndTime(pk[r.ret]).value, "done", r.ret)),
                    log |-> Append(st.log, [what |-> "dispatch", packet |-> r.ret,
                                            time |-> now, processor |-> i]),
                    raised |-> FALSE]
         IN  IF Empty(s1.queue) THEN s1
             ELSE FillFrom_IgnoreBusy(s1, i + 1, now)

\* the for loop of _fill_processors from the 0-based processor index i on; an
\* AssertionError of end_time leaves the loop with what was assigned before it.
\* r is the result of the one call of queue.pop of an iteration, bound once
RECURSIVE FillFrom(_, _, _)
FillFrom(st, i, now) ==
    IF i >= Len(st.processors) THEN st
    ELSE IF ~st.processors[i + 1].is_busy
         THEN CHOOSE next \in {
                LET pk == [st.all_packets EXCEPT ![r.ret].processor_index = i,
                                                 ![r.ret].start_time = now]
                    et == EndTime(pk[r.ret])
                    s0 == [st EXCEPT !.queue = r.queue,
                                     !.all_packets = pk,
                                     !.processors[i + 1] = SetIsBusy(@, now),
                                     !.raised = TRUE]
                    s1 == [queue |-> r.queue,
                           all_packets |-> pk,
                           processors |-> [st.processors EXCEPT
                                             ![i + 1] = SetIsBusy(@, now)],
                           event_set |-> AddEvent(st.event_set,
                                                  Event(et.value, "done", r.ret)),
                           log |-> Append(st.log, [what |-> "dispatch", packet |-> r.ret,
                                                   time |-> now, processor |-> i]),
                           raised |-> FALSE]
                IN  IF et.raised THEN s0
                    ELSE IF Empty(s1.queue) THEN s1
                    ELSE FillFrom(s1, i + 1, now)
                : r \in {Pop(st.queue, now)}} : TRUE
         ELSE FillFrom(st, i + 1, now)

\* mutant: the scan starts at the second processor
FillProcessorsOf_SkipFirst(st, now) ==
    IF ~Empty(st.queue) THEN FillFrom(st, 1, now) ELSE st

\* Scheduler._fill_processors
FillProcessorsOf(st, now) ==
    IF ~Empty(st.queue) THEN FillFrom(st, 0, now) ELSE st

\* the call of _fill_processors that ends an iteration of run; an exception
\* raised in it ends run
FillProcessors ==
    /\ pc = "fill"
    /\ LET st == FillProcessorsOf([queue |-> queue, all_packets |-> all_packets,
                                   processors |-> processors, event_set |-> event_set,
                                   log |-> log, raised |-> FALSE],
                                  current_time)
       IN  /\ queue' = st.queue
           /\ all_packets' = st.all_packets
           /\ processors' = st.processors
           /\ event_set' = st.event_set
           /\ log' = st.log
           /\ pc' = IF st.raised THEN "raised" ELSE "loop"
    /\ UNCHANGED <<qvars, priority_probs, current_time, event, batch, horizon_hit>>

\* the while test of run fails: run returns
Finish ==
    /\ pc = "loop"
    /\ ~(current_time < Horizon /\ event_set /= <<>>)
    /\ pc' = "done"
    /\ UNCHANGED <<queue, all_packets, qvars, event_set, processors, priority_probs,
                   current_time, event, batch, horizon_hit, log>>

\* the schedulers constructed: queue, number of processors, and the classes
\* priority_probs can draw (one FIFO child per class for WRR)
ProcessorCounts == {1, 2}

SchedulerConfigs ==
    {[queue |-> FIFOQueue(L), processors |-> n, priority_probs |-> {LOW}] :
        L \in {0, 1}, n \in ProcessorCounts}
    \cup {[queue |-> NPPSQueue(L), processors |-> n, priority_probs |-> {LOW, HIGH}] :
        L \in {1, 2}, n \in ProcessorCounts}
    \cup {[queue |-> WRRQueue(<<FIFOQueue(1), FIFOQueue(1)>>, w), processors |-> n,
           priority_probs |-> {LOW, MEDIUM}] :
        w \in {<<2, 1>>, <<0, 1>>}, n \in ProcessorCounts}

\* Scheduler.__init__
Init ==
    /\ \E c \in SchedulerConfigs :
         /\ queue = c.queue
         /\ processors = [i \in 1..c.processors |-> Processor]
         /\ priority_probs = c.priority_probs
    /\ event_set = <<>>
    /\ all_packets = <<>>
    /\ current_time = 0
    /\ pc = "create"
    /\ event = NoEvent
    /\ batch = <<>>
    /\ horizon_hit = FALSE
    /\ log = <<>>
    /\ ops = 0
    /\ last = [op |-> "none"]
    /\ admitted = <<>>
    /\ served = <<>>
    /\ streak = <<>>

Next == CreatePackets \/ DrawEvents \/ ApplyEvent \/ FillProcessors \/ Finish

Spec == Init /\ [][Next]_vars

\* the statements of run after _create_packets
RunLoop == DrawEvents \/ ApplyEvent \/ FillProcessors \/ Finish

\* run is sequential code: whenever it has a next statement, it executes it
SpecLive == Spec /\ WF_vars(RunLoop)

\* ------------------------------------------------------------- properties
Range(s) == {s[i] : i \in 1..Len(s)}

\* some processor is idle
SomeIdle == \E i \in 1..Len(processors) : ~processors[i].is_busy

\* C1: when _fill_processors is about to pop a packet at the time t of the
\* events just applied, no event with time t is left in the event set: all of
\* them were applied as one batch.
C1_BatchBeforeRefill ==
    (pc = "fill" /\ batch /= <<>> /\ ~Empty(queue) /\ SomeIdle) =>
        \A i \in 1..Len(event_set) : event_set[i].time /= current_time

\* the events of a heap as a bag, by position-free count
CountIn(heap, e) == Cardinality({i \in 1..Len(heap) : heap[i] = e})

\* C9: EventSet.pop returns an event of the set whose time is the smallest and
\* leaves the other events in the set, and the clock of run never decreases.
C9_TimeOrder ==
    /\ [][(pc = "loop" /\ pc' /= "done") =>
            /\ Len(event_set') = Len(event_set) - 1
            /\ \A i \in 1..Len(event_set) :
                 /\ event'.time <= event_set[i].time
                 /\ CountIn(event_set, event_set[i]) =
                      CountIn(event_set', event_set[i])
                      + (IF event_set[i] = event' THEN 1 ELSE 0)]_vars
    /\ [][current_time' >= current_time]_vars

\* a DONE event inserted by a refill is popped ahead of two SPAWN events that
\* were in the set before it
C9_Witness ==
    /\ pc = "apply"
    /\ event.event_type = "done"
    /\ Len(event_set) = 2
    /\ \A i \in 1..Len(event_set) :
         event_set[i].event_type = "spawn" /\ event_set[i].time > event.time

\* C10: no event at or beyond the horizon is applied and the clock stays below
\* the horizon; once an event at or beyond the horizon has been popped, nothing
\* but the event set changes: no event is applied, no packet is dispatched, no
\* processor changes, no event is scheduled, and run returns with the event
\* set emptied.
C10_HorizonDiscard ==
    /\ [](/\ current_time < Horizon
          /\ \A i \in 1..Len(batch) : batch[i].time < Horizon
          /\ horizon_hit => pc /= "apply"
          /\ (horizon_hit /\ pc = "done") => event_set = <<>>)
    /\ [][horizon_hit =>
            /\ queue' = queue
            /\ all_packets' = all_packets
            /\ processors' = processors
            /\ current_time' = current_time
            /\ Len(event_set') <= Len(event_set)]_vars

\* an event beyond the horizon was discarded while another event is pending and
\* a packet is still queued
C10_Witness ==
    /\ horizon_hit
    /\ pc = "fill"
    /\ event_set /= <<>>
    /\ ~Empty(queue)


\* the queue objects that can notify: the queue itself and, for WRR, its children
QueueObjects(Q) == IF IsLeaf(Q) THEN {Q} ELSE {Q} \cup Range(Q.queues)

LastOf(s) == s[Len(s)]

\* the last call was a pop that returned a packet / an add that was admitted
PopSucceeded == last.op = "pop" /\ last.ret /= None
AddSucceeded == last.op = "add" /\ last.ret = TRUE
\* the last call failed: a rejected add or a pop on an empty queue
AddRejected == last.op = "add" /\ last.ret = FALSE
PopEmpty == last.op = "pop" /\ last.ret = None

\* the queue objects notified by the last call (made at time ops - 1)
NotifiedByLast(Q) ==
    {o \in QueueObjects(Q) :
        o.observed /= <<>> /\ LastOf(o.observed).current_time = ops - 1}

\* C2: after a successful pop on any discipline, every POP notification it
\* delivered was made with the packet already out of the container, and carries
\* new_length = the length after the removal (old length minus 1).
C2_PopNotifiedAfterRemoval ==
    PopSucceeded =>
        /\ queue \in NotifiedByLast(queue)
        /\ \A o \in NotifiedByLast(queue) :
             LET n == LastOf(o.observed)
             IN  /\ n.type = "pop"
                 /\ last.ret \notin Range(n.seen)
                 /\ n.new_length = Length(o)

\* C3: on a FIFO or NPPS queue with no pop served so far, the observer has
\* received exactly one ADD per admitted packet, in admission order, each with
\* the packet already in the container and new_length = 1, 2, ..., N = the
\* true length during the call.
C3_AddNotifications ==
    (IsLeaf(queue) /\ served = <<>>) =>
        /\ Len(queue.observed) = Len(admitted)
        /\ \A k \in 1..Len(admitted) :
             LET n == queue.observed[k]
             IN  /\ n.type = "add"
                 /\ n.packet = admitted[k]
                 /\ n.packet \in Range(n.seen)
                 /\ n.new_length = k
                 /\ Len(n.seen) = k

C3_Witness ==
    /\ IsLeaf(queue) /\ served = <<>>
    /\ Len(admitted) = 2
    /\ AddRejected
    /\ Len(queue.observed) = 2

\* C4: a rejected add and a pop on an empty queue leave the whole queue object
\* unchanged (contents, cursor, quota counter, every observer's record), and a
\* freshly constructed queue is empty.
C4_FailedOpNoEffect ==
    /\ (ops = 0 => Empty(queue))
    /\ [][(AddRejected' \/ PopEmpty') => queue' = queue]_vars

C4_Witness ==
    /\ queue.kind = "WRR"
    /\ AddRejected
    /\ queue.current_queue_popped = 1
    /\ Len(served) = 1

\* every leaf queue of Q: Q itself, or the children of a WRR queue
Leaves(Q) == IF IsLeaf(Q) THEN {Q} ELSE Range(Q.queues)

\* the leaf that add_packet of a packet of priority prio goes to
TargetLeaf(Q, prio) == IF IsLeaf(Q) THEN Q ELSE Q.queues[prio + 1]

\* C5: an add is admitted iff the leaf it goes to (the queue itself, or the WRR
\* child of the packet's priority) holds fewer than length_limit packets, a
\* rejected add leaves the length unchanged, and the length of every leaf stays
\* between 0 and its length_limit.
C5_Capacity ==
    /\ [](\A o \in Leaves(queue) : Len(o.q) >= 0 /\ Len(o.q) <= o.length_limit)
    /\ [][last'.op = "add" =>
            LET leaf == TargetLeaf(queue, all_packets'[last'.packet].priority)
            IN  /\ last'.ret <=> (Len(leaf.q) < leaf.length_limit)
                /\ ~last'.ret => Length(queue') = Length(queue)
                /\ last'.ret => Length(queue') = Length(queue) + 1]_vars

\* a WRR add is admitted to one child while the other child is full
C5_Witness ==
    /\ queue.kind = "WRR"
    /\ AddSucceeded
    /\ \E i \in 1..Len(queue.queues) :
         /\ i /= all_packets[last.packet].priority + 1
         /\ queue.queues[i].length_limit > 0
         /\ Len(queue.queues[i].q) = queue.queues[i].length_limit

\* C6: on a FIFO queue the packets served so far followed by the packets still
\* queued are exactly the admitted packets in admission order.
C6_FIFOOrder ==
    queue.kind = "FIFO" => admitted = served \o queue.q

C6_Witness ==
    /\ queue.kind = "FIFO"
    /\ Len(served) = 3
    /\ Len(queue.q) = 1
    /\ PopSucceeded

\* q is ordered by non-increasing priority, admission order among equals
\* (packets are numbered in the order they are offered)
PriorityOrdered(q) ==
    \A i, j \in 1..Len(q) :
        i < j =>
            \/ all_packets[q[i]].priority > all_packets[q[j]].priority
            \/ all_packets[q[i]].priority = all_packets[q[j]].priority /\ q[i] < q[j]

\* C7: the list of an NPPS queue is always ordered by non-increasing priority,
\* admission order among equal priorities; every pop returns a packet of the
\* highest priority present and the earliest admitted of those; and two
\* successive pops with no add in between return non-increasing priorities.
C7_NPPSOrder ==
    /\ [](queue.kind = "NPPS" => PriorityOrdered(queue.q))
    /\ [][(queue.kind = "NPPS" /\ PopSucceeded') =>
            /\ last'.ret \in Range(queue.q)
            /\ \A x \in Range(queue.q) :
                 \/ all_packets[x].priority < all_packets[last'.ret].priority
                 \/ all_packets[x].priority = all_packets[last'.ret].priority
                    /\ last'.ret <= x
            /\ PopSucceeded =>
                 all_packets[last'.ret].priority <= all_packets[last.ret].priority]_vars

\* a pop returned a packet of higher priority that was admitted after the
\* packet still queued
C7_Witness ==
    /\ queue.kind = "NPPS"
    /\ Len(queue.q) = 1
    /\ PopSucceeded
    /\ last.ret > queue.q[1]
    /\ all_packets[last.ret].priority > all_packets[queue.q[1]].priority

\* the maximal runs of equal elements of s, as <<element, length>> pairs
RECURSIVE Runs(_)
Runs(s) ==
    IF s = <<>> THEN <<>>
    ELSE LET r == Runs(Tail(s))
         IN  IF r /= <<>> /\ Head(r)[1] = Head(s)
             THEN <<<<Head(s), Head(r)[2] + 1>>>> \o Tail(r)
             ELSE <<<<Head(s), 1>>>> \o r

PositiveWeights(Q) == \A i \in 1..Len(Q.weights) : Q.weights[i] > 0

\* the first non-empty child of Q at or after 0-based index i in the cursor's
\* direction of travel (i, i - 1, ... cyclically); Q is not empty
RECURSIVE FirstNonEmpty(_, _)
FirstNonEmpty(Q, i) ==
    IF Len(Q.queues[i + 1].q) > 0 THEN i
    ELSE FirstNonEmpty(Q, (i - 1) % Len(Q.queues))

\* C8: on a WRR queue with positive weights, the pops made while every child is
\* non-empty serve the children in runs: a run between two other runs has
\* exactly weights[i] pops of child i, the first and the last run at most
\* weights[i], and the run after child i is of child i - 1 (cyclically); with
\* weights [2,1] that is 2 of child 0, 1 of child 1, repeating. A pop that finds
\* the cursor's child empty serves the next non-empty child in the cursor's
\* direction with a fresh quota: after it the counter is 1 on that child, or 0
\* on the following child when its weight is 1.
C8_WeightedRoundRobin ==
    /\ []((queue.kind = "WRR" /\ PositiveWeights(queue)) =>
            LET r == Runs(streak)
                n == Len(queue.queues)
            IN  /\ queue.current_queue_popped < queue.weights[queue.current_queue_index + 1]
                /\ \A k \in 1..Len(r) :
                     /\ r[k][2] <= queue.weights[r[k][1] + 1]
                     /\ (1 < k /\ k < Len(r)) => r[k][2] = queue.weights[r[k][1] + 1]
                     /\ k < Len(r) => r[k + 1][1] = (r[k][1] - 1) % n)
    /\ [][(/\ queue.kind = "WRR" /\ PositiveWeights(queue)
            /\ last'.op = "pop"
            /\ ~Empty(queue)
            /\ Empty(queue.queues[queue.current_queue_index + 1])) =>
            LET j == FirstNonEmpty(queue, queue.current_queue_index)
                n == Len(queue.queues)
            IN  /\ last'.ret = Head(queue.queues[j + 1].q)
                /\ IF queue.weights[j + 1] = 1
                   THEN /\ queue'.current_queue_index = (j - 1) % n
                        /\ queue'.current_queue_popped = 0
                   ELSE /\ queue'.current_queue_index = j
                        /\ queue'.current_queue_popped = 1]_vars

\* weights [2,1], both children kept non-empty: one pop of child 1, then two of
\* child 0, after which the cursor is back on child 1
C8_Witness ==
    /\ queue.kind = "WRR"
    /\ queue.weights = <<2, 1>>
    /\ streak = <<1, 0, 0>>
    /\ queue.current_queue_index = 1
    /\ queue.current_queue_popped = 0

\* a child emptied in the middle of its turn is skipped by the next pop
C8_WitnessSkip ==
    /\ queue.kind = "WRR"
    /\ queue.weights = <<2, 1>>
    /\ Len(served) = 3
    /\ PopSucceeded
    /\ all_packets[served[1]].priority = 1
    /\ all_packets[served[2]].priority = 0
    /\ all_packets[served[3]].priority = 1

\* ------------------------------------------------------------- packet life cycle
Packets == 1..Len(all_packets)

\* C11: a dropped packet has neither start_time nor processor_index set (so a
\* packet with start_time set is not dropped), and no step of the run after the
\* packets are created changes a packet's priority.
C11_DroppedNotDispatched ==
    /\ [](\A p \in Packets :
            all_packets[p].dropped =>
                /\ all_packets[p].start_time = None
                /\ all_packets[p].processor_index = None)
    /\ [][pc /= "create" =>
            /\ Len(all_packets') = Len(all_packets)
            /\ \A p \in Packets :
                 all_packets'[p].priority = all_packets[p].priority]_vars

\* the run ended with a dropped packet and a dispatched packet
C11_Witness ==
    /\ pc = "done"
    /\ \E p \in Packets : all_packets[p].dropped
    /\ \E p \in Packets : all_packets[p].start_time /= None

\* how many entries of kind what the log holds for packet p
Count(what, p) ==
    Cardinality({k \in 1..Len(log) : log[k].what = what /\ log[k].packet = p})

\* how many events of type event_type exist for packet p that are not applied
\* yet: those in the event set, and the one _draw_events has just yielded
Pending(event_type, p) ==
    Cardinality({k \in 1..Len(event_set) :
        event_set[k].event_type = event_type /\ event_set[k].packet = p})
    + (IF pc = "apply" /\ batch[Len(batch)].event_type = event_type
          /\ batch[Len(batch)].packet = p
       THEN 1 ELSE 0)

\* C12: once created, every packet has one SPAWN event, not yet applied or applied, and
\* at the end of the run it has been applied; a packet is dispatched at most
\* once and start_time and processor_index are not written again; at most one
\* DONE event exists for it, pending or applied, and only after its dispatch;
\* a dropped packet is never dispatched and gets no DONE event.
C12_OncePerPacket ==
    /\ [](pc /= "create" =>
            \A p \in Packets :
                /\ Count("spawn", p) + Pending("spawn", p) = 1
                /\ pc = "done" => Count("spawn", p) = 1
                /\ Count("dispatch", p) <= 1
                /\ Count("dispatch", p) = 1 <=> all_packets[p].start_time /= None
                /\ Count("done", p) + Pending("done", p) <= Count("dispatch", p)
                /\ all_packets[p].dropped =>
                     Count("dispatch", p) + Count("done", p) + Pending("done", p) = 0)
    /\ [][\A p \in Packets :
            (pc /= "create" /\ all_packets[p].start_time /= None) =>
                /\ all_packets'[p].start_time = all_packets[p].start_time
                /\ all_packets'[p].processor_index = all_packets[p].processor_index]_vars

\* the run ended with a dropped packet, a completed packet and a packet that
\* was dispatched but whose DONE event was never applied
C12_Witness ==
    /\ pc = "done"
    /\ \E p \in Packets : all_packets[p].dropped
    /\ \E p \in Packets : Count("done", p) = 1
    /\ \E p \in Packets : Count("dispatch", p) = 1 /\ Count("done", p) = 0

\* the configurations the design calls invalid, as far as the model holds them
InvalidConfig ==
    \/ \E o \in Leaves(queue) : o.length_limit = 0
    \/ Len(processors) = 0
    \/ priority_probs = {}

\* C13: run never starts on a scheduler constructed with an invalid
\* configuration.
C13_InvalidConfigRejected == InvalidConfig => pc = "create"

\* C14: end_time raises for every packet that has not been dispatched and gives
\* start_time + process_time for every packet that has, and no call of it made
\* by run raises.
C14_EndTimeAsserted ==
    /\ \A p \in Packets :
         LET et == EndTime(all_packets[p])
         IN  IF Count("dispatch", p) = 0
             THEN et.raised
             ELSE /\ ~et.raised
                  /\ et.value = all_packets[p].start_time + all_packets[p].process_time
                  /\ \A k \in 1..Len(log) :
                       (log[k].what = "dispatch" /\ log[k].packet = p) =>
                           et.value = log[k].time + all_packets[p].process_time
    /\ pc /= "raised"

\* a refill has just scheduled the DONE event of a packet at its end_time while
\* another packet is still waiting
C14_Witness ==
    /\ pc = "loop"
    /\ ~Empty(queue)
    /\ \E k \in 1..Len(event_set) :
         /\ event_set[k].event_type = "done"
         /\ event_set[k].time = EndTime(all_packets[event_set[k].packet]).value
         /\ event_set[k].time = current_time + 1

\* ------------------------------------------------------------- termination
\* the events still to pop plus the packets still to dispatch
Remaining ==
    Len(event_set) + Cardinality({p \in Packets : all_packets[p].start_time = None})

\* how many empty children the loop of WRRQueue.pop passes before it finds a
\* packet, counted up to one more than the number of children
RECURSIVE ScanSkips(_, _)
ScanSkips(Q, k) ==
    IF k > Len(Q.queues) \/ ~Empty(Q.queues[Q.current_queue_index + 1]) THEN k
    ELSE ScanSkips(NextQueue(Q), k + 1)

\* C15: once the arrivals are generated, run reaches its end: every iteration
\* of the loop pops an event and no step adds more events than it dispatches
\* packets, so the events to pop plus
\* the packets to dispatch decrease with every iteration; the loop is left with
\* the event set exhausted or the clock at the horizon; and the scan of
\* WRRQueue.pop on a non-empty queue passes fewer empty children than there are
\* children.
C15_Terminates ==
    /\ (pc = "loop") ~> (pc = "done")
    /\ [][/\ (pc = "loop" /\ pc' /= "done") => Remaining' < Remaining
          /\ pc \in {"apply", "fill"} => Remaining' <= Remaining]_vars
    /\ [](pc = "done" => (event_set = <<>> \/ current_time >= Horizon))
    /\ []((queue.kind = "WRR" /\ ~Empty(queue)) =>
            ScanSkips(queue, 0) < Len(queue.queues))

\* the scan of a refill is about to pass an empty child of a WRR queue
C15_Witness ==
    /\ pc = "fill"
    /\ queue.kind = "WRR"
    /\ ~Empty(queue)
    /\ SomeIdle
    /\ ScanSkips(queue, 0) = 1

\* the run ended after a refill whose scan passed an empty child
C15_WitnessDone ==
    /\ pc = "done"
    /\ queue.kind = "WRR"
    /\ Len(log) >= 4

\* ------------------------------------------------------------- weight quota
\* C17: on a WRR queue with any non-negative weights, the cursor has served its
\* child at most weights[i] times since it arrived there, and among the pops
\* made while every child is non-empty no child is served more than weights[i]
\* times in a row.
C17_QuotaRespected ==
    queue.kind = "WRR" =>
        LET r == Runs(streak)
        IN  /\ queue.current_queue_popped <=
                   queue.weights[queue.current_queue_index + 1]
            /\ \A k \in 1..Len(r) : r[k][2] <= queue.weights[r[k][1] + 1]

\* ------------------------------------------------------------- assignment
\* the 0-based indexes of the idle processors
IdleProcessors == {i \in 0..(Len(processors) - 1) : ~processors[i + 1].is_busy}

Min(a, b) == IF a <= b THEN a ELSE b

\* the pending DONE events of packet p in heap
DoneEvents(heap, p) ==
    {k \in 1..Len(heap) : heap[k].event_type = "done" /\ heap[k].packet = p}

\* C18: a refill assigns as many packets as there are queued packets and idle
\* processors, whichever is fewer, to the idle processors in ascending index
\* order; each assignment pops one packet that was queued, sets its start_time
\* to the clock and its processor_index to the processor, marks that processor
\* busy since the clock and schedules one DONE event at start_time +
\* process_time; processors not assigned are left as they were; and between
\* two assignments to one processor the DONE event of the first packet is
\* applied.
C18_Assignment ==
    /\ [][pc = "fill" =>
            LET new == SubSeq(log', Len(log) + 1, Len(log'))
                k   == Len(new)
                n   == Len(processors)
            IN  /\ k = Min(Length(queue), Cardinality(IdleProcessors))
                /\ Length(queue') = Length(queue) - k
                /\ Len(event_set') = Len(event_set) + k
                /\ \A j \in 1..k :
                     LET i == new[j].processor
                         p == new[j].packet
                     IN  /\ new[j].what = "dispatch"
                         /\ i \in IdleProcessors
                         /\ Cardinality({h \in IdleProcessors : h < i}) = j - 1
                         /\ p \in Range(Contents(queue))
                         /\ p \notin Range(Contents(queue'))
                         /\ \A j2 \in 1..k : j2 /= j => new[j2].packet /= p
                         /\ all_packets[p].start_time = None
                         /\ all_packets'[p].start_time = current_time
                         /\ all_packets'[p].processor_index = i
                         /\ processors'[i + 1].is_busy
                         /\ processors'[i + 1].start_time = current_time
                         /\ DoneEvents(event_set, p) = {}
                         /\ Cardinality(DoneEvents(event_set', p)) = 1
                         /\ \A e \in DoneEvents(event_set', p) :
                              event_set'[e].time =
                                  current_time + all_packets[p].process_time
                /\ \A i \in 0..(n - 1) :
                     (\A j \in 1..k : new[j].processor /= i) =>
                         processors'[i + 1] = processors[i + 1]]_vars
    /\ [](\A a, b \in 1..Len(log) :
            (/\ a < b
             /\ log[a].what = "dispatch" /\ log[b].what = "dispatch"
             /\ log[a].processor = log[b].processor) =>
                \E c \in (a + 1)..(b - 1) :
                    log[c].what = "done" /\ log[c].packet = log[a].packet)

\* a refill has just given a packet to processor 1 because processor 0 is busy
\* with another packet, and processor 0 was given a second packet earlier,
\* after the DONE event of its first
C18_Witness ==
    /\ pc = "loop"
    /\ Len(processors) = 2
    /\ log /= <<>>
    /\ log[Len(log)].what = "dispatch"
    /\ log[Len(log)].processor = 1
    /\ processors[1].is_busy
    /\ Cardinality({k \in 1..Len(log) :
            log[k].what = "dispatch" /\ log[k].processor = 0}) = 2

\* ------------------------------------------------------------- work conservation
\* C19: when _fill_processors has returned, and until the next event is
\* applied, the queue is empty or every processor is busy; the refill itself
\* ends in such a state whatever it started from.
C19_WorkConserving ==
    /\ [](pc \in {"loop", "done"} => (Empty(queue) \/ ~SomeIdle))
    /\ [][pc = "fill" => (Empty(queue') \/ IdleProcessors' = {})]_vars

\* after a refill a packet is still queued, every processor being busy
C19_Witness ==
    /\ pc = "loop"
    /\ ~Empty(queue)
    /\ ~SomeIdle
    /\ Len(processors) = 2
    /\ log[Len(log)].what = "spawn"

\* ------------------------------------------------------------- processors and events
\* the packet last given to the processor of 0-based index i, None before its
\* first assignment
Serving(i) ==
    LET ks == {k \in 1..Len(log) : log[k].what = "dispatch" /\ log[k].processor = i}
    IN  IF ks = {} THEN None
        ELSE log[CHOOSE k \in ks : \A h \in ks : h <= k].packet

\* the pending DONE events whose packet was given to processor i
PendingDone(i) ==
    {k \in 1..Len(event_set) :
        /\ event_set[k].event_type = "done"
        /\ all_packets[event_set[k].packet].processor_index = i}

\* processor i is busy exactly when one DONE event is pending for it, and that
\* event is of the packet the processor is serving
Corresponds(i) ==
    /\ processors[i + 1].is_busy <=> Cardinality(PendingDone(i)) = 1
    /\ \A k \in PendingDone(i) : event_set[k].packet = Serving(i)

\* C20 as stated: between two iterations of the loop every processor is busy
\* exactly when one DONE event is pending for it.
C20_BusyIffPendingDone ==
    pc = "loop" => \A i \in 0..(Len(processors) - 1) : Corresponds(i)

\* C20: between two iterations of the loop, and as long as no event at or
\* beyond the horizon has been popped, every processor is busy exactly when one
\* DONE event is pending for it, the one of the packet it is serving; after
\* such an event was discarded every pending DONE event still is the only one
\* of a busy processor serving its packet; every applied DONE event releases a
\* processor that is busy with that very packet since the packet's start_time,
\* and adds the packet's service time to its account; and no account exceeds
\* the clock.
C20_ProcessorEventConsistency ==
    /\ []((pc = "loop" /\ ~horizon_hit) =>
            \A i \in 0..(Len(processors) - 1) : Corresponds(i))
    /\ [](pc = "loop" =>
            \A i \in 0..(Len(processors) - 1) :
                /\ Cardinality(PendingDone(i)) <= 1
                /\ \A k \in PendingDone(i) :
                     /\ processors[i + 1].is_busy
                     /\ event_set[k].packet = Serving(i))
    /\ [][(pc = "apply" /\ batch[Len(batch)].event_type = "done") =>
            LET p == batch[Len(batch)].packet
                i == all_packets[p].processor_index
            IN  /\ processors[i + 1].is_busy
                /\ Serving(i) = p
                /\ processors[i + 1].start_time = all_packets[p].start_time
                /\ ~processors'[i + 1].is_busy
                /\ processors'[i + 1].account =
                       processors[i + 1].account + all_packets[p].process_time
                /\ \A h \in 1..Len(processors) :
                     h /= i + 1 => processors'[h] = processors[h]]_vars
    /\ [](\A h \in 1..Len(processors) :
            /\ processors[h].account >= 0
            /\ processors[h].account <= current_time)

\* between two iterations a processor is still busy although its DONE event,
\* at the horizon, was popped and discarded; the other processor was released
\* by an applied DONE event
C20_Witness ==
    /\ pc = "loop"
    /\ horizon_hit
    /\ \E i \in 0..(Len(processors) - 1) :
         processors[i + 1].is_busy /\ PendingDone(i) = {}
    /\ \E h \in 1..Len(processors) :
         ~processors[h].is_busy /\ processors[h].account > 0

====
